---- MODULE Spec2Model ----
(***************************************************************************)
(* NeptunIcalProxy: an HTTP relay that takes a percent-encoded calendar    *)
(* URL in the request path, fetches it, drops the events whose SUMMARY     *)
(* ends with FALSE and returns the rest.                                   *)
(*                                                                         *)
(* Three specifications:                                                   *)
(*   Spec        the request handler do_GET with its two globals,          *)
(*   SpecFilter  filter_ical_events applied to bounded documents,          *)
(*   SpecParse   parse_url applied to percent-encoded request paths.       *)
(*                                                                         *)
(* Text is modelled in two ways.  A request path is a sequence of code     *)
(* points (37 is '%', 47 is '/').  A calendar document is a sequence of    *)
(* tokens: "SUMMARY:", "summary:", "FALSE", "false", "x" (any other        *)
(* visible text), " " (any whitespace that is no line feed, a carriage     *)
(* return included) and "\n".                                              *)
(***************************************************************************)
EXTENDS Integers, Sequences, FiniteSets, TLC

VARIABLES
    max_requests,     \* int(os.environ["MAX_REQUESTS_PER_MINUTE"]), fixed for the process
    allowed_hosts,    \* os.environ["ALLOWED_HOSTS"] split on "," and stripped
    now,              \* int(time() // 60), the wall-clock minute
    current_minute,   \* global current_minute
    request_count,    \* global request_count
    bucket_seq,       \* proxy requests handled since current_minute took its value
    bucket_fetches,   \* urlopen calls made since current_minute took its value
    last,             \* what the most recent do_GET received and did
    ical_data,        \* SpecFilter: the document handed to filter_ical_events
    filtered,         \* SpecFilter: filter_ical_events(ical_data)
    refiltered,       \* SpecFilter: filter_ical_events(filtered)
    fpc,              \* SpecFilter: "input", "filtered" or "refiltered"
    orig_url,         \* SpecParse: the URL a client wants fetched
    self_path,        \* SpecParse: the request path the client sends
    target,           \* SpecParse: parse_url's result for self_path
    ppc               \* SpecParse: "url", "encoded" or "parsed"

hvars == <<max_requests, allowed_hosts, now, current_minute, request_count,
           bucket_seq, bucket_fetches, last>>
fvars == <<ical_data, filtered, refiltered, fpc>>
pvars == <<orig_url, self_path, target, ppc>>
vars == <<hvars, fvars, pvars>>

(***************************************************************************)
(* Bounds of the model.                                                    *)
(***************************************************************************)
MaxCeiling == 2     \* ceilings 0..MaxCeiling
MaxMinute == 2      \* wall-clock minutes 1..MaxMinute
MaxBurst == 3       \* proxy requests handled within one value of current_minute
MaxDocLen == 5      \* tokens in a calendar document
MaxUrlLen == 3      \* characters in a target URL

Max(S) == CHOOSE x \in S : \A y \in S : y <= x

(***************************************************************************)
(* parse_url and urllib.parse.unquote.                                     *)
(***************************************************************************)
None == <<-1>>

Falsy(v) == v = None \/ v = <<>>

IsHexDigit(c) == c \in (48..57) \cup (65..70) \cup (97..102)

HexValue(c) == IF c \in 48..57 THEN c - 48
               ELSE IF c \in 65..70 THEN c - 55
               ELSE c - 87

\* unquote_to_bytes: "%XX" with two hex digits becomes the byte, anything
\* else (a '%' that starts no escape included) is kept as it is.
RECURSIVE unquote_to_bytes(_)
unquote_to_bytes(s) ==
    IF s = <<>> THEN <<>>
    ELSE IF s[1] = 37 /\ Len(s) >= 3 /\ IsHexDigit(s[2]) /\ IsHexDigit(s[3])
         THEN <<16 * HexValue(s[2]) + HexValue(s[3])>> \o unquote_to_bytes(SubSeq(s, 4, Len(s)))
         ELSE <<s[1]>> \o unquote_to_bytes(Tail(s))

\* bytes.decode('utf-8', 'replace') for one- and two-byte sequences; a byte
\* that starts no valid sequence becomes U+FFFD (65533).
RECURSIVE decode_utf8(_)
decode_utf8(b) ==
    IF b = <<>> THEN <<>>
    ELSE IF b[1] < 128 THEN <<b[1]>> \o decode_utf8(Tail(b))
    ELSE IF b[1] \in 194..223 /\ Len(b) >= 2 /\ b[2] \in 128..191
         THEN <<(b[1] - 192) * 64 + (b[2] - 128)>> \o decode_utf8(SubSeq(b, 3, Len(b)))
         ELSE <<65533>> \o decode_utf8(Tail(b))

unquote(s) ==
    IF \A i \in 1..Len(s) : s[i] # 37 THEN s
    ELSE decode_utf8(unquote_to_bytes(s))

parse_url_lstrip(path) ==
    LET RECURSIVE strip(_)
        strip(p) == IF p # <<>> /\ p[1] = 47 THEN strip(Tail(p)) ELSE p
        p1 == strip(path)
    IN  IF p1 = <<>> THEN None ELSE unquote(p1)

parse_url(path) ==
    LET p1 == IF path # <<>> /\ path[1] = 47 THEN Tail(path) ELSE path
    IN  IF p1 = <<>> THEN None ELSE unquote(p1)

(***************************************************************************)
(* filter_ical_events.                                                     *)
(***************************************************************************)
Tokens == {"SUMMARY:", "summary:", "FALSE", "false", "x", " ", "\n"}

IsSpace(t) == t \in {" ", "\n"}                  \* regex \s
IsSummary(t) == t \in {"SUMMARY:", "summary:"}   \* regex SUMMARY: under re.IGNORECASE
IsFalse(t) == t \in {"FALSE", "false"}           \* regex FALSE under re.IGNORECASE

\* The end of the match of \n\s*\n that starts at d[i] = "\n": \s* is greedy,
\* so the match runs to the last line feed of the whitespace that follows;
\* 0 when there is no match at i.
SepEnd(d, i) ==
    LET ends == {j \in (i+1)..Len(d) :
                    d[j] = "\n" /\ \A m \in (i+1)..(j-1) : IsSpace(d[m])}
    IN  IF ends = {} THEN 0 ELSE Max(ends)

RECURSIVE SplitFrom(_, _, _)
SplitFrom(d, start, i) ==
    IF i > Len(d) THEN <<SubSeq(d, start, Len(d))>>
    ELSE IF d[i] = "\n" /\ SepEnd(d, i) # 0
         THEN <<SubSeq(d, start, i - 1)>> \o SplitFrom(d, SepEnd(d, i) + 1, SepEnd(d, i) + 1)
         ELSE SplitFrom(d, start, i + 1)

\* Every line feed separates: re.split(r"\n", ...)
RECURSIVE SplitLinesFrom(_, _, _)
SplitLinesFrom(d, start, i) ==
    IF i > Len(d) THEN <<SubSeq(d, start, Len(d))>>
    ELSE IF d[i] = "\n"
         THEN <<SubSeq(d, start, i - 1)>> \o SplitLinesFrom(d, i + 1, i + 1)
         ELSE SplitLinesFrom(d, start, i + 1)

split_events_each_line(d) == SplitLinesFrom(d, 1, 1)

\* re.split(r"\n\s*\n", ical_data)
split_events(d) == SplitFrom(d, 1, 1)

\* re.search(r"SUMMARY:.*FALSE\s*$", event, re.IGNORECASE), re.MULTILINE
\* left out: '$' only at the end of the event or before its final line feed.
summary_ends_false_single_line(event) ==
    \E i \in 1..Len(event) : \E j \in (i+1)..Len(event) :
        /\ IsSummary(event[i])
        /\ IsFalse(event[j])
        /\ \A m \in (i+1)..(j-1) : event[m] # "\n"
        /\ \E k \in j..Len(event) :
              /\ \A m \in (j+1)..k : IsSpace(event[m])
              /\ \/ k = Len(event)
                 \/ k + 1 = Len(event) /\ event[k+1] = "\n"

\* re.search(r"SUMMARY:.*FALSE\s*$", event, re.IGNORECASE | re.MULTILINE):
\* SUMMARY: at i, '.*' up to j without crossing a line feed, FALSE at j, \s*
\* up to k (line feeds included), and '$' at the end of the event or before
\* a line feed.
summary_ends_false(event) ==
    \E i \in 1..Len(event) : \E j \in (i+1)..Len(event) :
        /\ IsSummary(event[i])
        /\ IsFalse(event[j])
        /\ \A m \in (i+1)..(j-1) : event[m] # "\n"
        /\ \E k \in j..Len(event) :
              /\ \A m \in (j+1)..k : IsSpace(event[m])
              /\ k = Len(event) \/ event[k+1] = "\n"

\* "\n\n".join(events)
RECURSIVE join_events(_)
join_events(events) ==
    IF events = <<>> THEN <<>>
    ELSE IF Len(events) = 1 THEN events[1]
    ELSE events[1] \o <<"\n", "\n">> \o join_events(Tail(events))

filter_ical_events(d) ==
    LET keep(event) == ~summary_ends_false(event)
    IN  join_events(SelectSeq(split_events(d), keep))

(***************************************************************************)
(* The inputs of do_GET.                                                   *)
(*                                                                         *)
(* A request is its path and, for a proxy request, what                    *)
(* urllib.parse.urlparse makes of the decoded target: a ValueError         *)
(* (ok = FALSE, as for "http://[::1"), or a netloc and whether the path    *)
(* ends with the API suffix.  http.server never hands do_GET an empty      *)
(* path, so none is enumerated.                                            *)
(***************************************************************************)
Hosts == {"neptun.example", "other.example"}

AllowLists == {{""}, {"neptun.example"}, {"*"}}   \* unset, one host, wildcard

NoTarget == [ok |-> FALSE, netloc |-> "-", endpoint |-> FALSE]

Targets == {[ok |-> FALSE, netloc |-> "", endpoint |-> FALSE]}
           \cup [ok : {TRUE}, netloc : Hosts, endpoint : BOOLEAN]

LandingPath == <<47>>                \* "/"
TargetPath == <<47, 104, 37, 51, 65>>  \* "/h%3A", a percent-encoded target

Requests == {[path |-> LandingPath, target |-> NoTarget]}
            \cup [path : {TargetPath}, target : Targets]

\* What the upstream does when urlopen asks it: unreachable, or a status
\* with a body that is UTF-8 text (a document) or is not.
SampleDocs == {<<"x", "\n", "\n", "SUMMARY:", "x", "FALSE">>}

NoUpstream == [net |-> "-", status |-> 0, utf8 |-> FALSE, data |-> <<>>]

Upstreams == {[net |-> "down", status |-> 0, utf8 |-> FALSE, data |-> <<>>]}
             \cup [net : {"up"}, status : {204, 404}, utf8 : {TRUE}, data : {<<>>}]
             \cup [net : {"up"}, status : {200}, utf8 : {FALSE}, data : {<<>>}]
             \cup [net : {"up"}, status : {200}, utf8 : {TRUE}, data : SampleDocs]

\* What a write to the client socket does inside respond_success or
\* respond_error: it works, it raises before the status line is out, or it
\* raises after the headers are out and before the body is.
WriteOutcomes == {"ok", "fail_headers", "fail_body"}

Message(text) == [kind |-> "message", text |-> text, data |-> <<>>]
Calendar(data) == [kind |-> "calendar", text |-> "", data |-> data]
Html == [kind |-> "html", text |-> "", data |-> <<>>]
NoBody == [kind |-> "none", text |-> "", data |-> <<>>]

\* send_response, send_header, end_headers, wfile.write: what reaches the wire.
respond(code, body, w) ==
    IF w = "fail_headers" THEN <<>>
    ELSE <<[code |-> code, body |-> IF w = "ok" THEN body ELSE NoBody]>>

respond_error(code, message, w) == respond(code, Message(message), w)
respond_success(data, w) == respond(200, Calendar(data), w)

\* A respond call inside the try of lines 102-117: when its write raises,
\* "except Exception" (line 116) answers again with 500.  A status line whose
\* flush raised is still in the handler's header buffer and goes out with the
\* next flush that works.
Guarded(code, body, w1, w2) ==
    IF w1 = "ok" THEN respond(code, body, w1)
    ELSE IF w1 = "fail_body"
    THEN respond(code, body, w1) \o respond_error(500, "An unexpected error occurred", w2)
    ELSE IF w2 = "fail_headers" THEN <<>>
    ELSE <<[code |-> code, body |-> NoBody]>>
         \o respond_error(500, "An unexpected error occurred", w2)

\* urllib.request.urlopen: URLError when the upstream is unreachable,
\* HTTPError (a URLError) for a status outside 200..299, else the response.
urlopen(up) ==
    IF up.net = "down" THEN [raised |-> "URLError", status |-> 0]
    ELSE IF up.status \notin 200..299 THEN [raised |-> "HTTPError", status |-> up.status]
    ELSE [raised |-> "none", status |-> up.status]

\* Lines 102-117.
fetch(up, w1, w2) ==
    LET r == urlopen(up)
    IN  IF r.raised # "none"
        THEN [code |-> 500, wire |-> respond_error(500, "Error fetching URL", w1), w2used |-> FALSE]
        ELSE IF r.status # 200
        THEN [code |-> r.status,
              wire |-> Guarded(r.status, Message("Error fetching URL"), w1, w2),
              w2used |-> w1 # "ok"]
        ELSE IF ~up.utf8
        THEN [code |-> 500, wire |-> respond_error(500, "An unexpected error occurred", w1),
              w2used |-> FALSE]
        ELSE [code |-> 200,
              wire |-> Guarded(200, Calendar(filter_ical_events(up.data)), w1, w2),
              w2used |-> w1 # "ok"]

Unserved(code, message, w1) ==
    [code |-> code, wire |-> respond_error(code, message, w1), fetches |-> 0, w2used |-> FALSE]

\* An unset ALLOWED_HOSTS taken to allow every host.
host_allowed_unset_allows_all(netloc, allowed) ==
    netloc \in allowed \/ "*" \in allowed \/ allowed = {""}

\* Line 93.
host_allowed(netloc, allowed) == netloc \in allowed \/ "*" \in allowed

endpoint_required_unless_wildcard(t, allowed) == t.endpoint \/ "*" \in allowed

\* Line 98.
endpoint_ok(t, allowed) == t.endpoint

\* Lines 83-120: everything after the rate limiter.
serve(req, up, w1, w2, allowed) ==
    IF Falsy(parse_url(req.path)) THEN Unserved(400, "Missing or invalid URL in path", w1)
    ELSE IF ~req.target.ok THEN Unserved(400, "ValueError", w1)
    ELSE IF ~host_allowed(req.target.netloc, allowed)
         THEN Unserved(403, "Forbidden: Host not allowed", w1)
    ELSE IF ~endpoint_ok(req.target, allowed)
         THEN Unserved(403, "Forbidden: Invalid API endpoint", w1)
    ELSE LET f == fetch(up, w1, w2)
         IN  [code |-> f.code, wire |-> f.wire, fetches |-> 1, w2used |-> f.w2used]

rate_limit_off_by_one(cm, rc, minute, ceiling) ==
    LET rc0 == IF cm # minute THEN 0 ELSE rc
        denied == rc0 > ceiling
    IN  [minute |-> minute, count |-> IF denied THEN rc0 ELSE rc0 + 1, denied |-> denied]

rate_limit_counts_denied(cm, rc, minute, ceiling) ==
    LET rc0 == IF cm # minute THEN 0 ELSE rc
    IN  [minute |-> minute, count |-> rc0 + 1, denied |-> rc0 >= ceiling]

\* Lines 66-81: the stored minute and count after the limiter, and its verdict.
rate_limit(cm, rc, minute, ceiling) ==
    LET rc0 == IF cm # minute THEN 0 ELSE rc
        denied == rc0 >= ceiling
    IN  [minute |-> minute, count |-> IF denied THEN rc0 ELSE rc0 + 1, denied |-> denied]

\* The handler with decoding and authorization ahead of the limiter.
handle_authorize_first(req, up, w1, w2, cm, rc, minute, ceiling, allowed) ==
    IF req.path = LandingPath
    THEN [minute |-> cm, count |-> rc, limited |-> FALSE, code |-> 200,
          wire |-> respond(200, Html, w1), fetches |-> 0, w2used |-> FALSE]
    ELSE LET s == serve(req, up, w1, w2, allowed)
             rl == rate_limit(cm, rc, minute, ceiling)
         IN  IF s.code \in {400, 403} /\ s.fetches = 0
             THEN [minute |-> cm, count |-> rc, limited |-> FALSE, code |-> s.code,
                   wire |-> s.wire, fetches |-> 0, w2used |-> FALSE]
             ELSE IF rl.denied
             THEN [minute |-> rl.minute, count |-> rl.count, limited |-> TRUE, code |-> 429,
                   wire |-> respond_error(429, "Too Many Requests", w1), fetches |-> 0,
                   w2used |-> FALSE]
             ELSE [minute |-> rl.minute, count |-> rl.count, limited |-> FALSE,
                   code |-> s.code, wire |-> s.wire, fetches |-> s.fetches,
                   w2used |-> s.w2used]

\* Lines 43-120: do_GET as a function of the request, the environment's
\* answers and the globals.
handle(req, up, w1, w2, cm, rc, minute, ceiling, allowed) ==
    IF req.path = LandingPath
    THEN [minute |-> cm, count |-> rc, limited |-> FALSE, code |-> 200,
          wire |-> respond(200, Html, w1), fetches |-> 0, w2used |-> FALSE]
    ELSE LET rl == rate_limit(cm, rc, minute, ceiling)
         IN  IF rl.denied
             THEN [minute |-> rl.minute, count |-> rl.count, limited |-> TRUE, code |-> 429,
                   wire |-> respond_error(429, "Too Many Requests", w1), fetches |-> 0,
                   w2used |-> FALSE]
             ELSE LET s == serve(req, up, w1, w2, allowed)
                  IN  [minute |-> rl.minute, count |-> rl.count, limited |-> FALSE,
                       code |-> s.code, wire |-> s.wire, fetches |-> s.fetches,
                       w2used |-> s.w2used]

(***************************************************************************)
(* Spec: the server handling one request at a time.                        *)
(***************************************************************************)
NoRequest ==
    [kind |-> "none", req |-> [path |-> LandingPath, target |-> NoTarget],
     upstream |-> NoUpstream, w1 |-> "ok", w2 |-> "-", limited |-> FALSE, code |-> 0,
     wire |-> <<>>, fetches |-> 0, seq |-> 0, pre_minute |-> 0, pre_count |-> 0]

FilterIdle ==
    /\ ical_data = <<>> /\ filtered = <<>> /\ refiltered = <<>> /\ fpc = "-"

ParseIdle ==
    /\ orig_url = <<>> /\ self_path = <<>> /\ target = None /\ ppc = "-"

Init ==
    /\ max_requests \in 0..MaxCeiling
    /\ allowed_hosts \in AllowLists
    /\ now = 1
    /\ current_minute = 0
    /\ request_count = 0
    /\ bucket_seq = 0
    /\ bucket_fetches = 0
    /\ last = NoRequest
    /\ FilterIdle
    /\ ParseIdle

\* The wall clock reaches the next minute.
Tick ==
    /\ now < MaxMinute
    /\ now' = now + 1
    /\ UNCHANGED <<max_requests, allowed_hosts, current_minute, request_count,
                   bucket_seq, bucket_fetches, last, fvars, pvars>>

\* The answers do_GET asks the environment for: an upstream only when it
\* fetches, a second write only when the first one raised inside the try.
UpstreamsAsked(req) ==
    IF handle(req, NoUpstream, "ok", "ok", current_minute, request_count, now,
              max_requests, allowed_hosts).fetches = 1
    THEN Upstreams ELSE {NoUpstream}

SecondWrites(req, up, w1) ==
    IF handle(req, up, w1, "ok", current_minute, request_count, now,
              max_requests, allowed_hosts).w2used
    THEN WriteOutcomes ELSE {"-"}

do_GET ==
    \E req \in Requests, w1 \in WriteOutcomes :
      \E up \in UpstreamsAsked(req) :
        \E w2 \in SecondWrites(req, up, w1) :
        LET r == handle(req, up, w1, w2, current_minute, request_count, now,
                        max_requests, allowed_hosts)
            proxy == req.path # LandingPath
            fresh == proxy /\ r.minute # current_minute
            seq == IF ~proxy THEN bucket_seq ELSE IF fresh THEN 1 ELSE bucket_seq + 1
        IN  /\ proxy /\ now = current_minute => bucket_seq < MaxBurst
            /\ current_minute' = r.minute
            /\ request_count' = r.count
            /\ bucket_seq' = seq
            /\ bucket_fetches' = (IF fresh THEN 0 ELSE bucket_fetches) + r.fetches
            /\ last' = [kind |-> IF proxy THEN "proxy" ELSE "landing",
                        req |-> req,
                        upstream |-> up, w1 |-> w1, w2 |-> w2,
                        limited |-> r.limited, code |-> r.code, wire |-> r.wire,
                        fetches |-> r.fetches, seq |-> IF proxy THEN seq ELSE 0,
                        pre_minute |-> current_minute, pre_count |-> request_count]
            /\ UNCHANGED <<max_requests, allowed_hosts, now, fvars, pvars>>

Next == Tick \/ do_GET

Spec == Init /\ [][Next]_vars

HandlerIdle ==
    /\ max_requests = 1 /\ allowed_hosts = {"*"} /\ now = 1
    /\ current_minute = 0 /\ request_count = 0
    /\ bucket_seq = 0 /\ bucket_fetches = 0 /\ last = NoRequest

(***************************************************************************)
(* SpecFilter: filter_ical_events on every document of at most MaxDocLen   *)
(* tokens, then on its own result.                                         *)
(***************************************************************************)
Docs == UNION {[1..n -> Tokens] : n \in 0..MaxDocLen}

InitFilter ==
    /\ HandlerIdle
    /\ ParseIdle
    /\ ical_data \in Docs
    /\ filtered = <<>>
    /\ refiltered = <<>>
    /\ fpc = "input"

Filter ==
    /\ fpc = "input"
    /\ filtered' = filter_ical_events(ical_data)
    /\ fpc' = "filtered"
    /\ UNCHANGED <<ical_data, refiltered, hvars, pvars>>

Refilter ==
    /\ fpc = "filtered"
    /\ refiltered' = filter_ical_events(filtered)
    /\ fpc' = "refiltered"
    /\ UNCHANGED <<ical_data, filtered, hvars, pvars>>

NextFilter == Filter \/ Refilter

SpecFilter == InitFilter /\ [][NextFilter]_vars

(***************************************************************************)
(* SpecParse: a client percent-encodes a URL into a request path and       *)
(* parse_url decodes it.                                                   *)
(***************************************************************************)
UrlChars == {97, 47, 37, 50, 53, 32, 233}      \* a / % 2 5 space e-acute

Urls == UNION {[1..n -> UrlChars] : n \in 1..MaxUrlLen}

\* Characters a client may leave as they are; '%', the space and everything
\* outside ASCII must be escaped.
MayStayLiteral(c) == c \in {97, 47, 50, 53}

Utf8(c) == IF c < 128 THEN <<c>> ELSE <<192 + (c \div 64), 128 + (c % 64)>>

HexDigit(n, upper) == IF n < 10 THEN 48 + n ELSE (IF upper THEN 55 ELSE 87) + n

RECURSIVE Escaped(_, _)
Escaped(bytes, upper) ==
    IF bytes = <<>> THEN <<>>
    ELSE <<37, HexDigit(bytes[1] \div 16, upper), HexDigit(bytes[1] % 16, upper)>>
         \o Escaped(Tail(bytes), upper)

EncodingsOfChar(c) ==
    (IF MayStayLiteral(c) THEN {<<c>>} ELSE {})
    \cup {Escaped(Utf8(c), TRUE), Escaped(Utf8(c), FALSE)}

\* Every valid percent-encoding of u.
RECURSIVE Encodings(_)
Encodings(u) ==
    IF u = <<>> THEN {<<>>}
    ELSE {e \o rest : e \in EncodingsOfChar(u[1]), rest \in Encodings(Tail(u))}

InitParse ==
    /\ HandlerIdle
    /\ FilterIdle
    /\ orig_url \in Urls
    /\ self_path = <<>>
    /\ target = None
    /\ ppc = "url"

Encode ==
    /\ ppc = "url"
    /\ \E p \in Encodings(orig_url) : self_path' = <<47>> \o p
    /\ ppc' = "encoded"
    /\ UNCHANGED <<orig_url, target, hvars, fvars>>

Parse ==
    /\ ppc = "encoded"
    /\ target' = parse_url(self_path)
    /\ ppc' = "parsed"
    /\ UNCHANGED <<orig_url, self_path, hvars, fvars>>

NextParse == Encode \/ Parse

SpecParse == InitParse /\ [][NextParse]_vars

(***************************************************************************)
(* Properties of the rate limiter (Spec).                                  *)
(***************************************************************************)
Statuses(wire) == {wire[i].code : i \in 1..Len(wire)}

\* The count the limiter of the last request started from.
LimiterBase == IF last.pre_minute # current_minute THEN 0 ELSE last.pre_count

HostRefused(req) ==
    /\ req.target.ok
    /\ req.target.netloc \notin allowed_hosts
    /\ "*" \notin allowed_hosts

\* C1: with a ceiling N >= 1, the k-th proxy request handled while
\* current_minute keeps one value is answered 429 exactly when k > N, a denied
\* request fetches nothing, and the first request of a new minute passes the
\* limiter and leaves request_count at 1.
C1_FixedWindow ==
    (max_requests >= 1 /\ last.kind = "proxy") =>
        /\ last.limited <=> last.seq > max_requests
        /\ last.limited => /\ last.code = 429
                            /\ Statuses(last.wire) \subseteq {429}
                            /\ last.fetches = 0
        /\ ~last.limited => last.code # 429 /\ request_count = last.seq
        /\ last.seq = 1 => ~last.limited /\ request_count = 1

\* A request of a new minute passes after the previous minute's bucket was
\* used up.
C1_Witness ==
    /\ max_requests = 2
    /\ last.kind = "proxy"
    /\ last.seq = 1
    /\ ~last.limited
    /\ last.pre_minute # 0
    /\ last.pre_count = max_requests
    /\ request_count = 1

\* C10: request_count stays within 0..N, a landing-page request and a request
\* denied with 429 leave it unchanged, and at most N upstream fetches are made
\* while current_minute keeps one value.
C10_CountWithinCeiling ==
    /\ request_count \in 0..max_requests
    /\ bucket_fetches <= max_requests
    /\ last.kind = "landing" =>
            request_count = last.pre_count /\ current_minute = last.pre_minute
    /\ (last.kind = "proxy" /\ last.limited) => request_count = last.pre_count

\* The ceiling's worth of fetches was made in this minute and the next request
\* was denied.
C10_Witness ==
    /\ max_requests = 2
    /\ last.kind = "proxy"
    /\ last.limited
    /\ last.wire # <<>>
    /\ request_count = max_requests
    /\ bucket_fetches = max_requests

\* C9 as stated: decoding and authorization run ahead of the limiter, so a
\* request answered 400 or 403 leaves (current_minute, request_count) as they
\* were and a request to a refused host is answered 403, never 429 (taken
\* for ceilings of at least 1).
C9_AuthorizeBeforeLimit ==
    (last.kind = "proxy" /\ max_requests >= 1) =>
        /\ last.code \in {400, 403} =>
                request_count = last.pre_count /\ current_minute = last.pre_minute
        /\ HostRefused(last.req) => last.code = 403

\* C9 amended: the limiter runs first.  Its verdict depends on the stored
\* count alone, whatever the target; a request answered 400 or 403 has been
\* counted; a request to a refused host is answered 429 once the ceiling is
\* reached and 403 before.
C9_LimitBeforeAuthorize ==
    last.kind = "proxy" =>
        /\ last.limited <=> LimiterBase >= max_requests
        /\ last.code \in {400, 403} =>
                ~last.limited /\ request_count = LimiterBase + 1
        /\ HostRefused(last.req) =>
                last.code = (IF LimiterBase >= max_requests THEN 429 ELSE 403)

\* A request to a refused host arrives when the ceiling is reached.
C9_Witness ==
    /\ last.kind = "proxy"
    /\ max_requests >= 1
    /\ HostRefused(last.req)
    /\ last.limited
    /\ last.wire # <<>>
    /\ last.wire[1].code = 429

(***************************************************************************)
(* Properties of authorization and of the responses (Spec).                *)
(***************************************************************************)
\* C2: a request that passes the limiter and whose target host is neither in
\* the allow-list nor covered by a wildcard is answered 403 with the host
\* message, and urlopen is not called for it.
C2_RefusedHostIs403 ==
    (last.kind = "proxy" /\ ~last.limited /\ HostRefused(last.req)) =>
        /\ last.code = 403
        /\ last.fetches = 0
        /\ last.upstream = NoUpstream
        /\ Statuses(last.wire) \subseteq {403}
        /\ last.w1 = "ok" =>
                last.wire = <<[code |-> 403, body |-> Message("Forbidden: Host not allowed")]>>

\* A refused host whose path does end with the API suffix.
C2_Witness ==
    /\ last.kind = "proxy"
    /\ ~last.limited
    /\ HostRefused(last.req)
    /\ last.req.target.endpoint
    /\ allowed_hosts = {"neptun.example"}
    /\ last.w1 = "ok"
    /\ last.wire # <<>>

\* C6: a request that passes the limiter and whose target path does not end
\* with the API suffix is answered 403 and urlopen is not called for it,
\* whatever the allow-list, wildcard and allow-listed host included.
C6_WrongEndpointIs403 ==
    (last.kind = "proxy" /\ ~last.limited /\ last.req.target.ok
        /\ ~last.req.target.endpoint) =>
        /\ last.code = 403
        /\ last.fetches = 0
        /\ last.upstream = NoUpstream
        /\ Statuses(last.wire) \subseteq {403}
        /\ (last.w1 = "ok" /\ ~HostRefused(last.req)) =>
                last.wire = <<[code |-> 403,
                               body |-> Message("Forbidden: Invalid API endpoint")]>>

\* Under the wildcard, a target without the API suffix.
C6_Witness ==
    /\ last.kind = "proxy"
    /\ ~last.limited
    /\ allowed_hosts = {"*"}
    /\ last.req.target.ok
    /\ ~last.req.target.endpoint
    /\ last.w1 = "ok"
    /\ last.wire # <<>>

UpstreamFailed(up) == up.net = "down" \/ (up.net = "up" /\ up.status # 200)

\* C3 as stated: when the fetch fails, by the network or by an upstream
\* status other than 200, every status sent to the client is 500 and a
\* response written without a failure carries the fetch error message.
C3_UpstreamFailureIs500 ==
    (last.kind = "proxy" /\ last.fetches = 1 /\ UpstreamFailed(last.upstream)) =>
        /\ last.code = 500
        /\ Statuses(last.wire) \subseteq {500}
        /\ last.w1 = "ok" =>
                last.wire = <<[code |-> 500, body |-> Message("Error fetching URL")]>>

\* C8 as stated: a request gets at most one status line, urlopen is called at
\* most once for it, and an error response's body, when written, is the
\* error message.
C8_ExactlyOneResponse ==
    last.kind = "proxy" =>
        /\ Len(last.wire) <= 1
        /\ last.fetches <= 1
        /\ \A i \in 1..Len(last.wire) :
              last.wire[i].code # 200 => last.wire[i].body.kind \in {"message", "none"}

(***************************************************************************)
(* Properties of filter_ical_events (SpecFilter).                          *)
(***************************************************************************)
\* d[k] belongs to a blank-line separator: it is whitespace lying between two
\* line feeds (these included) with nothing but whitespace between them.
InSeparator(d, k) ==
    /\ IsSpace(d[k])
    /\ \E i \in 1..k, j \in k..Len(d) :
          /\ i < j
          /\ d[i] = "\n" /\ d[j] = "\n"
          /\ \A m \in i..j : IsSpace(d[m])

\* The blank-line-delimited blocks of d, in order: the maximal stretches
\* outside the separators, empty ones at either end included.
BlockStarts(d) ==
    {p \in 1..(Len(d) + 1) :
        /\ p = Len(d) + 1 \/ ~InSeparator(d, p)
        /\ p = 1 \/ InSeparator(d, p - 1)}

BlockAt(d, p) ==
    LET stops == {q \in (p-1)..Len(d) : \A m \in p..q : ~InSeparator(d, m)}
    IN  SubSeq(d, p, Max(stops))

RECURSIVE BlocksFrom(_, _)
BlocksFrom(d, starts) ==
    IF starts = {} THEN <<>>
    ELSE LET p == CHOOSE x \in starts : \A y \in starts : x <= y
         IN  <<BlockAt(d, p)>> \o BlocksFrom(d, starts \ {p})

BlocksOf(d) ==
    (IF d # <<>> /\ InSeparator(d, 1) THEN << <<>> >> ELSE <<>>)
    \o BlocksFrom(d, BlockStarts(d))

\* A line holds SUMMARY: and, after it, FALSE followed by nothing but
\* whitespace up to the end of the line.
LineEndsFalse(line) ==
    \E i \in 1..Len(line) : \E j \in (i+1)..Len(line) :
        /\ IsSummary(line[i])
        /\ IsFalse(line[j])
        /\ \A m \in (j+1)..Len(line) : line[m] = " "

Excluded(block) ==
    LET lines == SplitLinesFrom(block, 1, 1)
    IN  \E n \in 1..Len(lines) : LineEndsFalse(lines[n])

\* C4: the result is the blocks of the document that hold no line with
\* SUMMARY: ... FALSE at its end (case and trailing whitespace ignored),
\* unchanged, in their order, joined by two line feeds.
C4_RemovesExactlyExcluded ==
    fpc # "input" =>
        LET kept(block) == ~Excluded(block)
        IN  filtered = join_events(SelectSeq(BlocksOf(ical_data), kept))

\* A document of a block that is kept and a block that is dropped for a
\* lower-case false.
C4_Witness ==
    /\ fpc = "filtered"
    /\ \E n, m \in 1..Len(BlocksOf(ical_data)) :
          /\ Excluded(BlocksOf(ical_data)[n])
          /\ \E i \in 1..Len(BlocksOf(ical_data)[n]) : BlocksOf(ical_data)[n][i] = "false"
          /\ ~Excluded(BlocksOf(ical_data)[m])
          /\ BlocksOf(ical_data)[m] # <<>>
          /\ filtered = BlocksOf(ical_data)[m]

\* C5: filtering the filtered document gives the filtered document.
C5_Idempotent == fpc = "refiltered" => refiltered = filtered

\* A document with a separator that holds whitespace, of which something is
\* left after filtering, and which filtering changed.
C5_Witness ==
    /\ fpc = "refiltered"
    /\ \E i \in 1..(Len(ical_data) - 2) :
          ical_data[i] = "\n" /\ ical_data[i+1] = " " /\ ical_data[i+2] = "\n"
    /\ filtered # <<>>
    /\ filtered # ical_data

(***************************************************************************)
(* Properties of parse_url (SpecParse).                                    *)
(***************************************************************************)
\* C7: for a URL u and any valid percent-encoding p of it, parse_url on the
\* path "/" followed by p gives u.
C7_RoundTrip == ppc = "parsed" => target = orig_url

\* A URL that starts with a slash left as it is and holds a '%' and a
\* character outside ASCII, both escaped.
C7_Witness ==
    /\ ppc = "parsed"
    /\ orig_url = <<47, 37, 233>>
    /\ self_path[2] = 47
    /\ target = orig_url

====
